---------------------------- MODULE Spec2Model ----------------------------
(***************************************************************************)
(* A model of the Boids murmuration simulation: the GPGPU wiring and the   *)
(* animation loop of src/src/main.ts and the two compute shaders (position *)
(* and velocity) of src/src/shaders/positionFragment.glsl.                 *)
(*                                                                         *)
(* Numbers.  Floats are modelled in fixed point: lengths, speeds and       *)
(* accelerations are integers counting thousandths (Milli), so that the    *)
(* shader's epsilon 0.001 is exactly one unit; weights are integers        *)
(* counting halves (the panel's step 0.5); times are milliseconds.  A      *)
(* division truncates toward zero.                                         *)
(*                                                                         *)
(* Vectors.  A vec3 is modelled by its component along one axis through    *)
(* the origin: length is the absolute value and normalize is the sign.     *)
(* The line through the origin is closed under both shaders (every force   *)
(* is a multiple of a position, a velocity or a difference of them), up to *)
(* the 0.0001 offset of the centroid pull and the curl noise, which is a   *)
(* nondeterministic input here.                                            *)
(*                                                                         *)
(* The grid is scaled down: TEXTURE_WIDTH x TEXTURE_HEIGHT agents and      *)
(* MAX_SAMPLES stride samples.                                             *)
(***************************************************************************)
EXTENDS Integers, Sequences, FiniteSets, TLC

\* ------------------------------------------------------------------------
\* Sizes of the model
\* ------------------------------------------------------------------------

\* main.ts:12 (512 in the program)
TEXTURE_WIDTH == 2
\* main.ts:13 (512 in the program)
TEXTURE_HEIGHT == 2
\* positionFragment.glsl:69 (300 in the program)
MAX_SAMPLES == 3
\* frames the animation loop runs in a behaviour
MaxFrames == 2
\* panel changes in a behaviour
MaxGuiChanges == 1
\* largest grid side and sample budget the sampler is tried with
MaxSide == 4
MaxBudget == 6

PARTICLE_COUNT == TEXTURE_WIDTH * TEXTURE_HEIGHT
Ids == 0 .. (PARTICLE_COUNT - 1)

\* ------------------------------------------------------------------------
\* Fixed-point arithmetic
\* ------------------------------------------------------------------------

\* one length unit; 0.001 is 1
Milli == 10 * 10 * 10
\* one weight unit; the panel's step 0.5 is 1
Half == 1 + 1
\* the shader's near-zero threshold 0.001
Epsilon == 1

Abs(x) == IF x < 0 THEN -x ELSE x
Sign(x) == IF x > 0 THEN 1 ELSE IF x < 0 THEN -1 ELSE 0
Min(a, b) == IF a < b THEN a ELSE b
Max(a, b) == IF a > b THEN a ELSE b
\* a / b truncated toward zero, b > 0
Div(a, b) == IF a >= 0 THEN a \div b ELSE -((-a) \div b)
\* a * b / c truncated toward zero, without forming a * b
MulDiv(a, b, c) ==
  LET q == Div(a, c)
      r == a - q * c
  IN  q * b + Div(r * b, c)

\* GLSL length, normalize, clamp and smoothstep on the modelled axis
Length(v) == Abs(v)
Normalize(v) == Sign(v) * Milli
Clamp01(t) == Max(0, Min(Milli, t))
\* t = clamp((x - e0) / (e1 - e0), 0, 1); t * t * (3 - 2 t), e0 < e1
Smoothstep(e0, e1, x) ==
  LET t == IF x <= e0 THEN 0
           ELSE IF x >= e1 THEN Milli
           ELSE Clamp01(MulDiv(x - e0, Milli, e1 - e0))
  IN  MulDiv(MulDiv(t, t, Milli), 3 * Milli - 2 * t, Milli)

\* ------------------------------------------------------------------------
\* Stride sampling (velocity shader, lines 147-161)
\* ------------------------------------------------------------------------

\* float stride = max(1.0, floor(TOTAL_PARTICLES / float(MAX_SAMPLES)))
Stride(W, H, K) == Max(1, (W * H) \div K)
\* px = mod(idx, TEXTURE_WIDTH), py = floor(idx / TEXTURE_WIDTH)
PixelX(idx, W) == idx % W
PixelY(idx, W) == idx \div W
\* "Skip self": abs(px - selfPixel.x) < 0.5 && abs(py - selfPixel.y) < 0.5,
\* where selfPixel = gl_FragCoord.xy is the centre of the agent's own pixel,
\* (x + 0.5, y + 0.5).  Compared in halves: |2 px - (2 x + 1)| < 1.
SkipSelf(idx, self, W) ==
  /\ Abs(2 * PixelX(idx, W) - (2 * PixelX(self, W) + 1)) < 1
  /\ Abs(2 * PixelY(idx, W) - (2 * PixelY(self, W) + 1)) < 1
\* texture2D(.., neighborUV): the texel under (px + 0.5, py + 0.5); the
\* render targets repeat (RepeatWrapping), so a row past the last wraps
TexelId(idx, W, H) == (PixelY(idx, W) % H) * W + PixelX(idx, W)
\* the ids the loop reads, in order: i = 0 .. MAX_SAMPLES - 1, idx = i * stride
RECURSIVE SampleFrom(_, _, _, _, _)
SampleFrom(i, self, W, H, K) ==
  IF i >= K THEN << >>
  ELSE LET idx == i * Stride(W, H, K)
           rest == SampleFrom(i + 1, self, W, H, K)
       IN  IF SkipSelf(idx, self, W) THEN rest
           ELSE << TexelId(idx, W, H) >> \o rest
SampleIds(self, W, H, K) == SampleFrom(0, self, W, H, K)
\* (a variant that strides from the agent's own texel)
NeighborsFromSelf(self) ==
  [k \in 1 .. MAX_SAMPLES |->
     (self + (k - 1) * Stride(TEXTURE_WIDTH, TEXTURE_HEIGHT, MAX_SAMPLES))
       % PARTICLE_COUNT]
\* the ids the fragment of agent self reads on the program's grid
Neighbors(self) == SampleIds(self, TEXTURE_WIDTH, TEXTURE_HEIGHT, MAX_SAMPLES)

RECURSIVE SumOver(_, _)
\* the sum of f[k] over the set S of sequence indices
SumOver(f, S) ==
  IF S = {} THEN 0
  ELSE LET k == CHOOSE x \in S : TRUE IN f[k] + SumOver(f, S \ {k})

\* ------------------------------------------------------------------------
\* Position shader (lines 6-18)
\* ------------------------------------------------------------------------

\* pos += vel * uDelta
PositionShader(i, posT, velT, uDelta) == posT[i] + MulDiv(velT[i], uDelta, Milli)

\* ------------------------------------------------------------------------
\* Velocity shader (lines 132-250)
\* ------------------------------------------------------------------------

\* (a variant without the sampleRatio compensation of lines 183 and 190)
SeparationForceUncompensated(i, posT, u) ==
  LET nb == Neighbors(i)
      diff == [k \in 1 .. Len(nb) |-> posT[i] - posT[nb[k]]]
      near == {k \in 1 .. Len(nb) :
                 Length(diff[k]) > 0 /\ Length(diff[k]) < u.uSeparationRadius}
      push == [k \in 1 .. Len(nb) |->
                 IF k \in near THEN Sign(diff[k]) * Div(Milli * Milli, Length(diff[k]))
                 ELSE 0]
      separationCount == Cardinality(near)
  IN  IF separationCount > 0
      THEN MulDiv(MulDiv(Div(SumOver(push, near), separationCount),
                         u.uSeparationWeight, Half),
                  Min(separationCount, 3 * 10), 10)
      ELSE 0
\* separation += normalize(diff) / dist, summed over the sampled neighbours
\* with 0 < dist < uSeparationRadius; then averaged, scaled and weighted
SeparationForce(i, posT, u) ==
  LET nb == Neighbors(i)
      diff == [k \in 1 .. Len(nb) |-> posT[i] - posT[nb[k]]]
      near == {k \in 1 .. Len(nb) :
                 Length(diff[k]) > 0 /\ Length(diff[k]) < u.uSeparationRadius}
      push == [k \in 1 .. Len(nb) |->
                 IF k \in near THEN Sign(diff[k]) * Div(Milli * Milli, Length(diff[k]))
                 ELSE 0]
      separationCount == Cardinality(near)
      \* min(separationCount * sampleRatio / 10, 3) as a fraction num / den
      num == Min(separationCount * PARTICLE_COUNT, 3 * 10 * MAX_SAMPLES)
      den == 10 * MAX_SAMPLES
  IN  IF separationCount > 0
      THEN MulDiv(MulDiv(Div(SumOver(push, near), separationCount),
                         u.uSeparationWeight, Half), num, den)
      ELSE 0

\* the sampled neighbours with 0 < dist < uPerceptionRadius
Perceived(i, posT, u) ==
  LET nb == Neighbors(i)
  IN  {k \in 1 .. Len(nb) :
         /\ Length(posT[i] - posT[nb[k]]) > 0
         /\ Length(posT[i] - posT[nb[k]]) < u.uPerceptionRadius}

AlignmentForce(i, posT, velT, u) ==
  LET nb == Neighbors(i)
      seen == Perceived(i, posT, u)
      vels == [k \in 1 .. Len(nb) |-> velT[nb[k]]]
      alignSteer == Div(SumOver(vels, seen), Cardinality(seen)) - velT[i]
  IN  IF seen = {} THEN 0
      ELSE MulDiv(IF Length(alignSteer) > Epsilon THEN Normalize(alignSteer)
                  ELSE alignSteer,
                  u.uAlignmentWeight, Half)

CohesionForce(i, posT, u) ==
  LET nb == Neighbors(i)
      seen == Perceived(i, posT, u)
      poss == [k \in 1 .. Len(nb) |-> posT[nb[k]]]
      toCenter == Div(SumOver(poss, seen), Cardinality(seen)) - posT[i]
      steerStrength == Smoothstep(0, u.uPerceptionRadius, Length(toCenter))
  IN  IF seen = {} THEN 0
      ELSE MulDiv(IF Length(toCenter) > Epsilon
                  THEN Sign(toCenter) * steerStrength
                  ELSE toCenter,
                  u.uCohesionWeight, Half)

\* (a variant that forgets the turbulence weight)
TurbulenceForceUnweighted(curl, u) == curl
\* curlNoise(noisePos) * uTurbulence; curl is the noise field's value at the
\* agent, an input of the model
TurbulenceForce(curl, u) == MulDiv(curl, u.uTurbulence, Half)

\* accel -= normalize(myPos + vec3(0.0001)) * globalPull * uCohesionWeight * 0.15
\* (on the modelled grid of thousandths, myPos + 0.0001 is positive from 0 up)
CentroidPull(myPos, u) ==
  LET globalPull == Smoothstep(Div(u.uBoundaryRadius, 2), u.uBoundaryRadius,
                               Length(myPos))
      dir == IF myPos >= 0 THEN 1 ELSE -1
  IN  -dir * MulDiv(MulDiv(globalPull, u.uCohesionWeight, Half), 15, 100)

\* the soft spherical boundary: beyond 0.7 R, a cubic ramp to 2 * uMaxSpeed
BoundaryStrength(myPos, u) ==
  LET inner == MulDiv(u.uBoundaryRadius, 7, 10)
      width == MulDiv(u.uBoundaryRadius, 3, 10)
      d == Length(myPos)
      t == IF d - inner >= width THEN Milli
           ELSE Clamp01(MulDiv(d - inner, Milli, width))
  IN  IF d > inner
      THEN MulDiv(MulDiv(MulDiv(t, t, Milli), t, Milli), 2 * u.uMaxSpeed, Milli)
      ELSE 0
\* (a variant that adds the boundary force instead of subtracting it)
BoundaryForceOutward(myPos, u) == Sign(myPos) * BoundaryStrength(myPos, u)
\* accel -= normalize(myPos) * strength
BoundaryForce(myPos, u) == -Sign(myPos) * BoundaryStrength(myPos, u)

\* the sum of the accelerations, lines 186-233
Accel(i, posT, velT, u, curl) ==
  SeparationForce(i, posT, u) + AlignmentForce(i, posT, velT, u)
    + CohesionForce(i, posT, u) + TurbulenceForce(curl, u)
    + CentroidPull(posT[i], u) + BoundaryForce(posT[i], u)

\* (a variant without the clamp to uMaxSpeed)
ClampSpeedNoMax(newVel, u) ==
  LET speed == Length(newVel)
      minSpeed == MulDiv(u.uMaxSpeed, 2, 10)
  IN  IF speed < minSpeed /\ speed > Epsilon
      THEN MulDiv(Normalize(newVel), minSpeed, Milli)
      ELSE newVel
\* (a variant without the minimum speed)
ClampSpeedNoMin(newVel, u) ==
  IF Length(newVel) > u.uMaxSpeed
  THEN MulDiv(Normalize(newVel), u.uMaxSpeed, Milli)
  ELSE newVel
\* lines 238-247: clamp to uMaxSpeed, then raise to 0.2 * uMaxSpeed; both
\* tests read the speed of the integrated velocity
ClampSpeed(newVel, u) ==
  LET speed == Length(newVel)
      minSpeed == MulDiv(u.uMaxSpeed, 2, 10)
      capped == IF speed > u.uMaxSpeed
                THEN MulDiv(Normalize(newVel), u.uMaxSpeed, Milli)
                ELSE newVel
  IN  IF speed < minSpeed /\ speed > Epsilon
      THEN MulDiv(Normalize(capped), minSpeed, Milli)
      ELSE capped

\* vec3 newVel = myVel + accel * uDelta, before the clamp
Integrated(i, posT, velT, u, curl) ==
  velT[i] + MulDiv(Accel(i, posT, velT, u, curl), u.uDelta, Milli)

VelocityShader(i, posT, velT, u, curl) ==
  ClampSpeed(Integrated(i, posT, velT, u, curl), u)


\* ------------------------------------------------------------------------
\* State
\* ------------------------------------------------------------------------

VARIABLES
  dtPosition,           \* main.ts:70,74  the initial position data texture
  dtVelocity,           \* main.ts:71,75  the initial velocity data texture
  posTex,               \* positionVariable.renderTargets[0..1]
  velTex,               \* velocityVariable.renderTargets[0..1]
  currentTextureIndex,  \* gpuCompute.currentTextureIndex
  posUniforms,          \* main.ts:101-102
  velUniforms,          \* main.ts:105-115
  birdCount,            \* birdMesh.count
  birdMaterial,         \* birdMaterial.uniforms: the targets handed to the renderer
  gpuError,             \* main.ts:124  gpuCompute.init() returned an error
  consoleErrors,        \* console.error calls of main.ts:126 that reached the console
  computeCalls,         \* calls of gpuCompute.compute()
  frames,               \* calls of animate()
  guiChanges,           \* onChange callbacks run
  deltas,               \* the delta of every frame so far
  pc,                   \* where animate() is: idle, position, velocity, render
  done,                 \* the agents whose fragment of the running pass has run
  posGen,               \* the generation that wrote each position texel
  velGen,               \* the generation that wrote each velocity texel
  reads,                \* the generations of the texels read since compute() began
  smp,                  \* the stride sampler tried alone: its inputs and output
  nrm,                  \* the velocity shader's normalize calls tried alone
  twin                  \* two runs side by side, apart in one agent's record

vars == << dtPosition, dtVelocity, posTex, velTex, currentTextureIndex,
           posUniforms, velUniforms, birdCount, birdMaterial, gpuError,
           consoleErrors, computeCalls, frames, guiChanges, deltas, pc, done,
           posGen, velGen, reads, smp, nrm, twin >>

simVars == << dtPosition, dtVelocity, posTex, velTex, currentTextureIndex,
              posUniforms, velUniforms, birdCount, birdMaterial, gpuError,
              consoleErrors, computeCalls, frames, guiChanges, deltas, pc, done,
              posGen, velGen, reads >>

\* main.ts:17-27 and 105-115: the panel's defaults, as the velocity uniforms
DefaultUniforms ==
  [ uDelta            |-> 0,
    uSeparationWeight |-> 25 * Half,
    uAlignmentWeight  |-> 8 * Half,
    uCohesionWeight   |-> 12 * Half,
    uMaxSpeed         |-> 50 * Milli,
    uPerceptionRadius |-> 120 * Milli,
    uSeparationRadius |-> 25 * Milli,
    uBoundaryRadius   |-> 350 * Milli,
    uTurbulence       |-> 15 * Half ]

\* no texture handed over yet: { value: null }
NoTexture == -1

\* layouts fillPositionTexture can draw: every agent within 0.6 * boundaryRadius;
\* one closer than the separation radius, one within the perception radius
InitLayouts ==
  { [i \in Ids |-> (20 * (i % 4) - 30) * Milli],
    [i \in Ids |-> (150 - 100 * (i % 4)) * Milli] }
\* fillVelocityTexture: a heading at speed 0.3 * maxSpeed
InitSpeed == MulDiv(DefaultUniforms.uMaxSpeed, 3, 10)
InitVelocities == { -InitSpeed, InitSpeed }
\* the noise fields the agents can meet: the curl at each agent
NoiseFields ==
  { [i \in Ids |-> -Milli], [i \in Ids |-> Milli],
    [i \in Ids |-> IF i % 2 = 0 THEN Milli ELSE -Milli] }
\* clock.getElapsedTime() - lastTime, in milliseconds
Elapsed == { 0, 120 }

\* what the construction of main.ts leaves, whatever the textures hold
Constructed(dtP, dtV, u, failed, logged) ==
  /\ dtPosition = dtP
  /\ dtVelocity = dtV
  /\ posTex = [k \in 0 .. 1 |-> dtP]
  /\ velTex = [k \in 0 .. 1 |-> dtV]
  /\ currentTextureIndex = 0
  /\ posUniforms = [uDelta |-> 0]
  /\ velUniforms = u
  /\ birdCount = PARTICLE_COUNT
  /\ birdMaterial = [uTexturePosition |-> NoTexture, uTextureVelocity |-> NoTexture]
  /\ gpuError = failed
  /\ consoleErrors = logged
  /\ computeCalls = 0
  /\ frames = 0
  /\ guiChanges = 0
  /\ deltas = << >>
  /\ pc = "idle"
  /\ done = {}
  /\ posGen = [k \in 0 .. 1 |-> [i \in Ids |-> 0]]
  /\ velGen = [k \in 0 .. 1 |-> [i \in Ids |-> 0]]
  /\ reads = {}

SmpIdle == [w |-> 0, h |-> 0, k |-> 0, self |-> 0, ids |-> << >>, ran |-> FALSE]
TwinIdle ==
  [ a |-> [pos |-> [i \in Ids |-> 0], vel |-> [i \in Ids |-> 0]],
    b |-> [pos |-> [i \in Ids |-> 0], vel |-> [i \in Ids |-> 0]],
    u |-> DefaultUniforms, j |-> 0, ticks |-> 0 ]
NrmIdle ==
  [ pos |-> [i \in Ids |-> 0], vel |-> [i \in Ids |-> 0], u |-> DefaultUniforms,
    self |-> 0, sites |-> {}, written |-> "none", ran |-> FALSE ]

\* main.ts:123-127: init() fails or not; the error is logged by console.error,
\* which the production build drops (vite.config.ts: drop_console)
Init ==
  /\ \E dtP \in InitLayouts, dtV \in [Ids -> InitVelocities],
        failed \in BOOLEAN, dropped \in BOOLEAN :
       Constructed(dtP, dtV, DefaultUniforms, failed,
                   IF failed /\ ~dropped THEN 1 ELSE 0)
  /\ smp = SmpIdle
  /\ nrm = NrmIdle
  /\ twin = TwinIdle

\* ------------------------------------------------------------------------
\* gpuCompute.compute() (main.ts:195), with the variables in the order of
\* main.ts:78-88 and the dependencies of main.ts:91-98
\* ------------------------------------------------------------------------

Next01(k) == 1 - k

\* (a variant that hands the velocity pass the positions just written)
DependencyTargetChained(variable, dep, cur) ==
  IF variable = "velocity" /\ dep = "position" THEN Next01(cur) ELSE cur
\* the render target bound to a variable's shader for one of its
\* dependencies: the dependency's current one
DependencyTarget(variable, dep, cur) == cur

\* (a variant that computes only the agents that are drawn)
PassAgentsDrawn == { i \in Ids : i < birdCount }
\* the agents a pass writes: one fragment per texel of the target
PassAgents == Ids

\* one fragment of the position pass
PositionFragment(i, pT, vT, cur, delta) ==
  PositionShader(i, pT[DependencyTarget("position", "position", cur)],
                 vT[DependencyTarget("position", "velocity", cur)], delta)

\* one fragment of the velocity pass
VelocityFragment(i, pT, vT, cur, u, curl) ==
  VelocityShader(i, pT[DependencyTarget("velocity", "position", cur)],
                 vT[DependencyTarget("velocity", "velocity", cur)], u, curl)

\* the texels a fragment of the velocity pass reads: its own and the sampled
VelocityReads(i) == {i} \cup { Neighbors(i)[k] : k \in 1 .. Len(Neighbors(i)) }

\* ------------------------------------------------------------------------
\* animate() as one step (main.ts:179-209)
\* ------------------------------------------------------------------------

\* delta = Math.min(delta, 0.05)
ClampDelta(elapsed) == Min(elapsed, 50)

Animate(elapsed, curl) ==
  LET delta == ClampDelta(elapsed)
      cur == currentTextureIndex
      nxt == Next01(cur)
      u == [velUniforms EXCEPT !.uDelta = delta]
      pT == [posTex EXCEPT ![nxt] =
               [i \in Ids |-> IF i \in PassAgents
                              THEN PositionFragment(i, posTex, velTex, cur, delta)
                              ELSE posTex[nxt][i]]]
      vT == [velTex EXCEPT ![nxt] =
               [i \in Ids |-> IF i \in PassAgents
                              THEN VelocityFragment(i, pT, velTex, cur, u, curl[i])
                              ELSE velTex[nxt][i]]]
      pG == [posGen EXCEPT ![nxt] =
               [i \in Ids |-> IF i \in PassAgents THEN computeCalls + 1 ELSE posGen[nxt][i]]]
  IN  /\ pc = "idle"
      /\ ~gpuError
      /\ frames < MaxFrames
      /\ posUniforms' = [uDelta |-> delta]
      /\ velUniforms' = u
      /\ posTex' = pT
      /\ velTex' = vT
      /\ posGen' = pG
      /\ velGen' = [velGen EXCEPT ![nxt] =
           [i \in Ids |-> IF i \in PassAgents THEN computeCalls + 1 ELSE velGen[nxt][i]]]
      /\ reads' =
           { posGen[DependencyTarget("position", "position", cur)][i] : i \in PassAgents }
           \cup { velGen[DependencyTarget("position", "velocity", cur)][i] : i \in PassAgents }
           \cup UNION { { pG[DependencyTarget("velocity", "position", cur)][j] :
                            j \in VelocityReads(i) } : i \in PassAgents }
           \cup UNION { { velGen[DependencyTarget("velocity", "velocity", cur)][j] :
                            j \in VelocityReads(i) } : i \in PassAgents }
      /\ currentTextureIndex' = nxt
      /\ birdMaterial' = [uTexturePosition |-> nxt, uTextureVelocity |-> nxt]
      /\ computeCalls' = computeCalls + 1
      /\ frames' = frames + 1
      /\ deltas' = Append(deltas, delta)
      /\ UNCHANGED << dtPosition, dtVelocity, birdCount, gpuError, consoleErrors,
                      guiChanges, pc, done, smp, nrm, twin >>

\* animate() after init() failed: nothing stops the loop; the uniforms are
\* set and compute() is called on a renderer that has no render targets,
\* which ends the frame there
AnimateFailed(elapsed) ==
  /\ pc = "idle"
  /\ gpuError
  /\ frames < MaxFrames
  /\ posUniforms' = [uDelta |-> ClampDelta(elapsed)]
  /\ velUniforms' = [velUniforms EXCEPT !.uDelta = ClampDelta(elapsed)]
  /\ computeCalls' = computeCalls + 1
  /\ frames' = frames + 1
  /\ deltas' = Append(deltas, ClampDelta(elapsed))
  /\ UNCHANGED << dtPosition, dtVelocity, posTex, velTex, currentTextureIndex,
                  birdCount, birdMaterial, gpuError, consoleErrors, guiChanges,
                  pc, done, posGen, velGen, reads, smp, nrm, twin >>


\* ------------------------------------------------------------------------
\* The control panel (main.ts:145-173).  A callback runs between frames.
\* ------------------------------------------------------------------------

\* values the panel can give, within each controller's range
BirdCountValues == 1 .. PARTICLE_COUNT
SeparationValues == { 0, 10 * Half }
AlignmentValues == { 0 }
CohesionValues == { 0 }
MaxSpeedValues == { 5 * Milli, 100 * Milli }
PerceptionValues == { 5 * Milli, 100 * Milli }
SeparationRadiusValues == { 2 * Milli, 50 * Milli }
BoundaryValues == { 50 * Milli, 600 * Milli }
TurbulenceValues == { 0 }

GuiReady == pc = "idle" /\ guiChanges < MaxGuiChanges

GuiFrame ==
  /\ guiChanges' = guiChanges + 1
  /\ UNCHANGED << dtPosition, dtVelocity, posTex, velTex, currentTextureIndex,
                  posUniforms, birdMaterial, gpuError, consoleErrors,
                  computeCalls, frames, deltas, pc, done, posGen, velGen,
                  reads, smp, nrm, twin >>

\* (v) => (birdMesh.count = v)
GuiBirdCount(v) ==
  /\ GuiReady
  /\ birdCount' = v
  /\ UNCHANGED velUniforms
  /\ GuiFrame

GuiSeparation(v) ==
  /\ GuiReady
  /\ velUniforms' = [velUniforms EXCEPT !.uSeparationWeight = v]
  /\ UNCHANGED birdCount
  /\ GuiFrame

GuiAlignment(v) ==
  /\ GuiReady
  /\ velUniforms' = [velUniforms EXCEPT !.uAlignmentWeight = v]
  /\ UNCHANGED birdCount
  /\ GuiFrame

GuiCohesion(v) ==
  /\ GuiReady
  /\ velUniforms' = [velUniforms EXCEPT !.uCohesionWeight = v]
  /\ UNCHANGED birdCount
  /\ GuiFrame

GuiMaxSpeed(v) ==
  /\ GuiReady
  /\ velUniforms' = [velUniforms EXCEPT !.uMaxSpeed = v]
  /\ UNCHANGED birdCount
  /\ GuiFrame

GuiPerceptionRadius(v) ==
  /\ GuiReady
  /\ velUniforms' = [velUniforms EXCEPT !.uPerceptionRadius = v]
  /\ UNCHANGED birdCount
  /\ GuiFrame

GuiSeparationRadius(v) ==
  /\ GuiReady
  /\ velUniforms' = [velUniforms EXCEPT !.uSeparationRadius = v]
  /\ UNCHANGED birdCount
  /\ GuiFrame

GuiBoundaryRadius(v) ==
  /\ GuiReady
  /\ velUniforms' = [velUniforms EXCEPT !.uBoundaryRadius = v]
  /\ UNCHANGED birdCount
  /\ GuiFrame

GuiTurbulence(v) ==
  /\ GuiReady
  /\ velUniforms' = [velUniforms EXCEPT !.uTurbulence = v]
  /\ UNCHANGED birdCount
  /\ GuiFrame

Gui ==
  \/ \E v \in BirdCountValues : GuiBirdCount(v)
  \/ \E v \in SeparationValues : GuiSeparation(v)
  \/ \E v \in AlignmentValues : GuiAlignment(v)
  \/ \E v \in CohesionValues : GuiCohesion(v)
  \/ \E v \in MaxSpeedValues : GuiMaxSpeed(v)
  \/ \E v \in PerceptionValues : GuiPerceptionRadius(v)
  \/ \E v \in SeparationRadiusValues : GuiSeparationRadius(v)
  \/ \E v \in BoundaryValues : GuiBoundaryRadius(v)
  \/ \E v \in TurbulenceValues : GuiTurbulence(v)

\* ------------------------------------------------------------------------
\* The program: construction, then frames and panel changes in any order
\* ------------------------------------------------------------------------

Next ==
  \/ \E e \in Elapsed, curl \in NoiseFields : Animate(e, curl)
  \/ \E e \in Elapsed : AnimateFailed(e)
  \/ Gui

Spec == Init /\ [][Next]_vars


\* ------------------------------------------------------------------------
\* animate() at the grain of fragments: compute() draws one pass per
\* variable, in the order the variables were added, and a pass runs one
\* fragment per agent in any order.  The panel is left alone.
\* ------------------------------------------------------------------------

\* (a variant that adds velocityVariable first)
PassOrderVelocityFirst == << "velocity", "position" >>
\* main.ts:78-88: positionVariable is added first, velocityVariable second
PassOrder == << "position", "velocity" >>
Drawing == IF pc = "first" THEN PassOrder[1] ELSE PassOrder[2]
\* the curl a fragment can meet
CurlValues == { -Milli, Milli }

InitWorkers ==
  /\ \E dtP \in InitLayouts, dtV \in [Ids -> InitVelocities] :
       Constructed(dtP, dtV, DefaultUniforms, FALSE, 0)
  /\ smp = SmpIdle
  /\ nrm = NrmIdle
  /\ twin = TwinIdle

\* main.ts:180-195: the uniforms are set and compute() begins its first pass
AnimateBegin(elapsed) ==
  /\ pc = "idle"
  /\ ~gpuError
  /\ frames < MaxFrames
  /\ posUniforms' = [uDelta |-> ClampDelta(elapsed)]
  /\ velUniforms' = [velUniforms EXCEPT !.uDelta = ClampDelta(elapsed)]
  /\ computeCalls' = computeCalls + 1
  /\ deltas' = Append(deltas, ClampDelta(elapsed))
  /\ pc' = "first"
  /\ done' = {}
  /\ reads' = {}
  /\ UNCHANGED << dtPosition, dtVelocity, posTex, velTex, currentTextureIndex,
                  birdCount, birdMaterial, gpuError, consoleErrors, frames,
                  guiChanges, posGen, velGen, smp, nrm, twin >>

\* one fragment of the position pass: agent i's texel of the next target
PositionWorker(i) ==
  LET cur == currentTextureIndex
      nxt == Next01(cur)
  IN  /\ pc \in {"first", "second"}
      /\ Drawing = "position"
      /\ i \in PassAgents \ done
      /\ posTex' = [posTex EXCEPT ![nxt][i] =
                      PositionFragment(i, posTex, velTex, cur, posUniforms.uDelta)]
      /\ posGen' = [posGen EXCEPT ![nxt][i] = computeCalls]
      /\ reads' = reads
           \cup { posGen[DependencyTarget("position", "position", cur)][i],
                  velGen[DependencyTarget("position", "velocity", cur)][i] }
      /\ done' = done \cup {i}
      /\ UNCHANGED << dtPosition, dtVelocity, velTex, currentTextureIndex,
                      posUniforms, velUniforms, birdCount, birdMaterial, gpuError,
                      consoleErrors, computeCalls, frames, guiChanges, deltas,
                      pc, velGen, smp, nrm, twin >>

\* one fragment of the velocity pass: agent i's texel of the next target
VelocityWorker(i, curl) ==
  LET cur == currentTextureIndex
      nxt == Next01(cur)
  IN  /\ pc \in {"first", "second"}
      /\ Drawing = "velocity"
      /\ i \in PassAgents \ done
      /\ velTex' = [velTex EXCEPT ![nxt][i] =
                      VelocityFragment(i, posTex, velTex, cur, velUniforms, curl)]
      /\ velGen' = [velGen EXCEPT ![nxt][i] = computeCalls]
      /\ reads' = reads
           \cup { posGen[DependencyTarget("velocity", "position", cur)][j] :
                    j \in VelocityReads(i) }
           \cup { velGen[DependencyTarget("velocity", "velocity", cur)][j] :
                    j \in VelocityReads(i) }
      /\ done' = done \cup {i}
      /\ UNCHANGED << dtPosition, dtVelocity, posTex, currentTextureIndex,
                      posUniforms, velUniforms, birdCount, birdMaterial, gpuError,
                      consoleErrors, computeCalls, frames, guiChanges, deltas,
                      pc, posGen, smp, nrm, twin >>

\* the first pass has drawn every fragment: compute() goes to the next variable
NextPass ==
  /\ pc = "first"
  /\ done = PassAgents
  /\ pc' = "second"
  /\ done' = {}
  /\ UNCHANGED << dtPosition, dtVelocity, posTex, velTex, currentTextureIndex,
                  posUniforms, velUniforms, birdCount, birdMaterial, gpuError,
                  consoleErrors, computeCalls, frames, guiChanges, deltas,
                  posGen, velGen, reads, smp, nrm, twin >>

\* the second pass has drawn every fragment: compute() swaps the targets
ComputeEnd ==
  /\ pc = "second"
  /\ done = PassAgents
  /\ currentTextureIndex' = Next01(currentTextureIndex)
  /\ pc' = "render"
  /\ done' = {}
  /\ UNCHANGED << dtPosition, dtVelocity, posTex, velTex, posUniforms,
                  velUniforms, birdCount, birdMaterial, gpuError, consoleErrors,
                  computeCalls, frames, guiChanges, deltas, posGen, velGen,
                  reads, smp, nrm, twin >>

\* main.ts:197-208: the current targets are handed to the bird material and
\* the scene is rendered
Render ==
  /\ pc = "render"
  /\ birdMaterial' = [uTexturePosition |-> currentTextureIndex,
                      uTextureVelocity |-> currentTextureIndex]
  /\ frames' = frames + 1
  /\ pc' = "idle"
  /\ UNCHANGED << dtPosition, dtVelocity, posTex, velTex, currentTextureIndex,
                  posUniforms, velUniforms, birdCount, gpuError, consoleErrors,
                  computeCalls, guiChanges, deltas, done, posGen, velGen,
                  reads, smp, nrm, twin >>

NextWorkers ==
  \/ \E e \in Elapsed : AnimateBegin(e)
  \/ \E i \in Ids : PositionWorker(i)
  \/ \E i \in Ids, curl \in CurlValues : VelocityWorker(i, curl)
  \/ NextPass
  \/ ComputeEnd
  \/ Render

SpecWorkers == InitWorkers /\ [][NextWorkers]_vars

\* ------------------------------------------------------------------------
\* The two shaders as functions of what the textures and uniforms hold:
\* frames from any records and from parameters the panel can set
\* ------------------------------------------------------------------------

\* (position, velocity) records an agent is started from
KernelRecords ==
  { << 0, 15 * Milli >>, << 1 * Milli, -15 * Milli >>,
    << 100 * Milli, 0 >>, << 100 * Milli, 10 * Milli >>, << -100 * Milli, 0 >> }

\* no flocking force and no turbulence
Drift ==
  [ DefaultUniforms EXCEPT !.uSeparationWeight = 0, !.uAlignmentWeight = 0,
      !.uCohesionWeight = 0, !.uTurbulence = 0,
      !.uPerceptionRadius = 100 * Milli, !.uBoundaryRadius = 50 * Milli ]

KernelUniforms ==
  { Drift,
    [Drift EXCEPT !.uMaxSpeed = 100 * Milli],
    [Drift EXCEPT !.uSeparationWeight = 10 * Half],
    [Drift EXCEPT !.uSeparationWeight = 20 * Half],
    [DefaultUniforms EXCEPT !.uMaxSpeed = 5 * Milli, !.uBoundaryRadius = 50 * Milli,
                            !.uPerceptionRadius = 100 * Milli] }

InitKernel ==
  /\ \E rec \in [Ids -> KernelRecords], u \in KernelUniforms :
       Constructed([i \in Ids |-> rec[i][1]], [i \in Ids |-> rec[i][2]],
                   u, FALSE, 0)
  /\ smp = SmpIdle
  /\ nrm = NrmIdle
  /\ twin = TwinIdle

NextKernel == \E e \in Elapsed, curl \in NoiseFields : Animate(e, curl)

SpecKernel == InitKernel /\ [][NextKernel]_vars

\* ------------------------------------------------------------------------
\* The stride sampler alone, for any grid and sample budget
\* ------------------------------------------------------------------------

InitSampler ==
  /\ \E w \in 1 .. MaxSide, h \in 1 .. MaxSide, k \in 1 .. MaxBudget :
       \E self \in 0 .. (w * h - 1) :
         smp = [w |-> w, h |-> h, k |-> k, self |-> self, ids |-> << >>,
                ran |-> FALSE]
  /\ Constructed([i \in Ids |-> 0], [i \in Ids |-> InitSpeed], DefaultUniforms,
                 FALSE, 0)
  /\ nrm = NrmIdle
  /\ twin = TwinIdle

\* the loop of lines 150-161 for the fragment of agent smp.self
RunSampler ==
  /\ ~smp.ran
  /\ smp' = [smp EXCEPT !.ids = SampleIds(smp.self, smp.w, smp.h, smp.k),
                        !.ran = TRUE]
  /\ UNCHANGED << simVars, nrm, twin >>

SpecSampler == InitSampler /\ [][RunSampler]_vars

\* ------------------------------------------------------------------------
\* The normalize calls of the velocity shader alone.  Positions are taken
\* on a ten times finer grid here (ten-thousandths), along the diagonal
\* axis (1, 1, 1), so that the centroid pull's offset vec3(0.0001) is one
\* unit of every component and a vector is zero when its component is.
\* ------------------------------------------------------------------------

\* the 0.0001 of normalize(myPos + vec3(0.0001)), in ten-thousandths
CentroidOffset == 1
\* ten-thousandths in a thousandth
Fine == 10 * CentroidOffset
\* the positions on the grid of thousandths, for the forces
Coarse(posF) == [i \in Ids |-> Div(posF[i], Fine)]

\* every normalize the fragment of agent i executes, with its operand
NormalizeSites(i, posF, velT, u, curl) ==
  LET nb == Neighbors(i)
      diff == [k \in 1 .. Len(nb) |-> posF[i] - posF[nb[k]]]
      \* line 167: dist > 0.0 && dist < uSeparationRadius
      near == {k \in 1 .. Len(nb) :
                 Length(diff[k]) > 0 /\ Length(diff[k]) < u.uSeparationRadius * Fine}
      \* line 173: dist > 0.0 && dist < uPerceptionRadius
      seen == {k \in 1 .. Len(nb) :
                 Length(diff[k]) > 0 /\ Length(diff[k]) < u.uPerceptionRadius * Fine}
      vels == [k \in 1 .. Len(nb) |-> velT[nb[k]]]
      poss == [k \in 1 .. Len(nb) |-> posF[nb[k]]]
      alignSteer == Div(SumOver(vels, seen), Cardinality(seen)) - velT[i]
      toCenter == Div(SumOver(poss, seen), Cardinality(seen)) - posF[i]
      newVel == Integrated(i, Coarse(posF), velT, u, curl)
      speed == Length(newVel)
  IN  \* line 168: normalize(diff)
      { [site |-> "separation", operand |-> diff[k]] : k \in near }
      \* lines 198-199: if (alignLen > 0.001) normalize(alignSteer)
      \cup (IF seen # {} /\ Length(alignSteer) > Epsilon
            THEN { [site |-> "alignment", operand |-> alignSteer] } ELSE {})
      \* lines 208-210: if (toCenterLen > 0.001) normalize(toCenter)
      \cup (IF seen # {} /\ Length(toCenter) > Epsilon * Fine
            THEN { [site |-> "cohesion", operand |-> toCenter] } ELSE {})
      \* line 225: normalize(myPos + vec3(0.0001)), under no test
      \cup { [site |-> "centroid", operand |-> posF[i] + CentroidOffset] }
      \* lines 228-232: if (distFromCenter > uBoundaryRadius * 0.7) normalize(myPos)
      \cup (IF Length(posF[i]) > MulDiv(u.uBoundaryRadius * Fine, 7, 10)
            THEN { [site |-> "boundary", operand |-> posF[i]] } ELSE {})
      \* lines 240-241: if (speed > uMaxSpeed) normalize(newVel)
      \cup (IF speed > u.uMaxSpeed
            THEN { [site |-> "clampMax", operand |-> newVel] } ELSE {})
      \* lines 245-246: if (speed < minSpeed && speed > 0.001) normalize(newVel)
      \cup (IF speed < MulDiv(u.uMaxSpeed, 2, 10) /\ speed > Epsilon
            THEN { [site |-> "clampMin", operand |-> newVel] } ELSE {})

\* what normalize of a zero vector gives is undefined in GLSL: the build can
\* write a NaN or a number
WrittenKinds(sites) ==
  IF \E o \in sites : o.operand = 0 THEN { "nan", "number" } ELSE { "number" }

\* (position in ten-thousandths, velocity) records of an agent: at the
\* origin, at (-0.0001, -0.0001, -0.0001), 1 unit out, beyond the boundary
GuardRecords ==
  { << 0, 0 >>, << -CentroidOffset, 15 * Milli >>,
    << Fine * Milli, -15 * Milli >>, << 60 * Fine * Milli, 0 >> }
\* panel settings the normalize calls are tried with
GuardUniforms ==
  { [DefaultUniforms EXCEPT !.uDelta = 50],
    [DefaultUniforms EXCEPT !.uDelta = 50, !.uBoundaryRadius = 50 * Milli,
                            !.uMaxSpeed = 5 * Milli],
    [DefaultUniforms EXCEPT !.uDelta = 0, !.uCohesionWeight = 0,
                            !.uTurbulence = 0] }

InitGuards ==
  /\ \E rec \in [Ids -> GuardRecords], u \in GuardUniforms, self \in Ids :
       nrm = [ pos |-> [i \in Ids |-> rec[i][1]], vel |-> [i \in Ids |-> rec[i][2]],
               u |-> u, self |-> self, sites |-> {}, written |-> "none",
               ran |-> FALSE ]
  /\ Constructed([i \in Ids |-> 0], [i \in Ids |-> InitSpeed], DefaultUniforms,
                 FALSE, 0)
  /\ smp = SmpIdle
  /\ twin = TwinIdle

\* the velocity fragment of agent nrm.self, for what it normalizes and writes
RunGuards(curl) ==
  /\ ~nrm.ran
  /\ LET sites == NormalizeSites(nrm.self, nrm.pos, nrm.vel, nrm.u, curl)
     IN  \E w \in WrittenKinds(sites) :
           nrm' = [nrm EXCEPT !.sites = sites, !.written = w, !.ran = TRUE]
  /\ UNCHANGED << simVars, smp, twin >>

NextGuards == \E curl \in CurlValues : RunGuards(curl)

SpecGuards == InitGuards /\ [][NextGuards]_vars

\* ------------------------------------------------------------------------
\* Two runs of the simulation side by side: the same parameters, frames and
\* noise field, and records that differ in one agent the stride loop does
\* not read
\* ------------------------------------------------------------------------

\* the texel indices i * stride, 0 <= i < MAX_SAMPLES
StrideIds ==
  { i * Stride(TEXTURE_WIDTH, TEXTURE_HEIGHT, MAX_SAMPLES) :
      i \in 0 .. (MAX_SAMPLES - 1) }
\* (position, velocity) records the runs are started from
TwinRecords ==
  { << 0, 15 * Milli >>, << 1 * Milli, -15 * Milli >>, << 20 * Milli, 15 * Milli >> }
\* panel settings the runs are given
TwinUniforms ==
  { DefaultUniforms, [DefaultUniforms EXCEPT !.uMaxSpeed = 100 * Milli,
                                             !.uSeparationRadius = 50 * Milli] }

\* one compute() on a run: both passes read the run's current records
TickOf(run, u, delta, curl) ==
  LET pT == [k \in 0 .. 1 |-> run.pos]
      vT == [k \in 0 .. 1 |-> run.vel]
  IN  [ pos |-> [i \in Ids |-> PositionFragment(i, pT, vT, 0, delta)],
        vel |-> [i \in Ids |->
                   VelocityFragment(i, pT, vT, 0, [u EXCEPT !.uDelta = delta],
                                    curl[i])] ]

InitTwin ==
  /\ \E rec \in [Ids -> TwinRecords], u \in TwinUniforms,
        j \in Ids \ StrideIds, other \in TwinRecords :
       /\ other # rec[j]
       /\ twin = [ a |-> [pos |-> [i \in Ids |-> rec[i][1]],
                          vel |-> [i \in Ids |-> rec[i][2]]],
                   b |-> [pos |-> [i \in Ids |-> IF i = j THEN other[1] ELSE rec[i][1]],
                          vel |-> [i \in Ids |-> IF i = j THEN other[2] ELSE rec[i][2]]],
                   u |-> u, j |-> j, ticks |-> 0 ]
  /\ Constructed([i \in Ids |-> 0], [i \in Ids |-> InitSpeed], DefaultUniforms,
                 FALSE, 0)
  /\ smp = SmpIdle
  /\ nrm = NrmIdle

\* a frame of both runs: the same uDelta and uTime; the curl noise is a
\* function of the agent's position and uTime, so an agent at the same place
\* in both runs meets the same curl, and one at another place any curl
TwinTick(elapsed, curl, elsewhere) ==
  LET curlB == [i \in Ids |-> IF twin.b.pos[i] = twin.a.pos[i] THEN curl[i]
                              ELSE elsewhere]
  IN  /\ twin.ticks < MaxFrames
      /\ twin' = [twin EXCEPT
                    !.a = TickOf(twin.a, twin.u, ClampDelta(elapsed), curl),
                    !.b = TickOf(twin.b, twin.u, ClampDelta(elapsed), curlB),
                    !.ticks = twin.ticks + 1]
      /\ UNCHANGED << simVars, smp, nrm >>

NextTwin ==
  \E e \in Elapsed, curl \in NoiseFields, elsewhere \in CurlValues :
    TwinTick(e, curl, elsewhere)

SpecTwin == InitTwin /\ [][NextTwin]_vars

\* ------------------------------------------------------------------------
\* Claims about the program (Spec)
\* ------------------------------------------------------------------------

\* the generation the renderer and the next frame see
CurPos == posTex[currentTextureIndex]
CurVel == velTex[currentTextureIndex]
\* the generation before it
PrevPos == posTex[Next01(currentTextureIndex)]
PrevVel == velTex[Next01(currentTextureIndex)]

SpeedBound == \A i \in Ids : Length(CurVel[i]) <= velUniforms.uMaxSpeed
Ticked == currentTextureIndex' # currentTextureIndex

\* C1 (as stated): in every reachable state, whatever ticks and panel changes
\* came before (lowering maxSpeed included), every agent's stored speed is at
\* most the current maxSpeed.
C1_SpeedAtMostMaxAlways == SpeedBound

\* C1 (amended): the stored speeds are within maxSpeed after construction and
\* right after every tick, and stay within it across every step that does
\* not lower maxSpeed.
C1_SpeedAtMostMaxAfterTick ==
  /\ SpeedBound
  /\ [][ /\ Ticked => SpeedBound'
         /\ (SpeedBound /\ velUniforms'.uMaxSpeed >= velUniforms.uMaxSpeed)
              => SpeedBound' ]_vars

\* C1 (witness): maxSpeed was lowered in the panel and the next tick brought
\* an agent that was faster down to it.
C1_ClampedAfterLowering ==
  /\ frames >= 1
  /\ velUniforms.uMaxSpeed < DefaultUniforms.uMaxSpeed
  /\ \E i \in Ids : /\ Length(PrevVel[i]) > velUniforms.uMaxSpeed
                    /\ Length(CurVel[i]) = velUniforms.uMaxSpeed

\* C9 (as stated): once init() has failed, no compute step is executed.
C9_NoComputeAfterFailedInit == gpuError => computeCalls = 0

\* the panel's simulation parameters
ParamNames ==
  { "uSeparationWeight", "uAlignmentWeight", "uCohesionWeight", "uMaxSpeed",
    "uPerceptionRadius", "uSeparationRadius", "uBoundaryRadius", "uTurbulence" }
RecordsUnchanged ==
  /\ posTex' = posTex
  /\ velTex' = velTex
  /\ currentTextureIndex' = currentTextureIndex

\* C10: a change of the bird count stays within N and leaves every parameter
\* and every agent record as it was; a change of one parameter leaves the
\* other parameters, the bird count and the agent records as they were; and
\* every tick writes the record of every one of the N agents, whatever the
\* bird count is.
C10_PanelFrame ==
  [][ /\ birdCount' # birdCount =>
           /\ birdCount' \in 1 .. PARTICLE_COUNT
           /\ velUniforms' = velUniforms
           /\ posUniforms' = posUniforms
           /\ RecordsUnchanged
      /\ \A f \in ParamNames :
           velUniforms'[f] # velUniforms[f] =>
             /\ \A g \in ParamNames \ {f} : velUniforms'[g] = velUniforms[g]
             /\ birdCount' = birdCount
             /\ RecordsUnchanged
      /\ Ticked =>
           \A i \in Ids : /\ posGen'[currentTextureIndex'][i] = computeCalls'
                          /\ velGen'[currentTextureIndex'][i] = computeCalls' ]_vars

\* C10 (witness): fewer birds are drawn than simulated, and a tick after
\* that change has written every agent's record.
C10_TickedWithFewerDrawn ==
  /\ birdCount < PARTICLE_COUNT
  /\ frames >= 1
  /\ \A i \in Ids : posGen[currentTextureIndex][i] = computeCalls


\* ------------------------------------------------------------------------
\* Claims about a tick at the grain of fragments (SpecWorkers)
\* ------------------------------------------------------------------------

\* the agents whose texel of target k was written by the running (or, between
\* frames, the last) compute()
PosWritten(k) == { i \in Ids : computeCalls >= 1 /\ posGen[k][i] = computeCalls }
VelWritten(k) == { i \in Ids : computeCalls >= 1 /\ velGen[k][i] = computeCalls }
FrameDone == pc = "idle" /\ frames >= 1

\* C3 (as stated): no position of generation g+1 is written before every
\* velocity of generation g+1 is, and after the tick each position is the
\* old position plus the new velocity times dt.
C3_VelocityFirstNewVelocity ==
  /\ \A k \in 0 .. 1 : PosWritten(k) # {} => VelWritten(k) = Ids
  /\ FrameDone =>
       \A i \in Ids :
         CurPos[i] = PrevPos[i] + MulDiv(CurVel[i], posUniforms.uDelta, Milli)

\* C3 (amended): no velocity of generation g+1 is written before every
\* position of generation g+1 is, and after the tick each position is the
\* old position plus the old (generation g) velocity times dt.
C3_PositionFirstOldVelocity ==
  /\ \A k \in 0 .. 1 : VelWritten(k) # {} => PosWritten(k) = Ids
  /\ FrameDone =>
       \A i \in Ids :
         CurPos[i] = PrevPos[i] + MulDiv(PrevVel[i], posUniforms.uDelta, Milli)

\* C3 (witness): a tick with dt > 0 is over and moved an agent whose old and
\* new velocities carry it to different places.
C3_MovedWithChangedVelocity ==
  /\ FrameDone
  /\ \E i \in Ids :
       /\ CurPos[i] # PrevPos[i]
       /\ MulDiv(CurVel[i], posUniforms.uDelta, Milli)
            # MulDiv(PrevVel[i], posUniforms.uDelta, Milli)

\* C5: every texel a fragment reads was written by the generation before the
\* one being computed; while the passes run, no texel of that generation's
\* targets is written; and the targets the bird material holds are whole and
\* of one generation, the one just computed whenever a frame is over.
C5_ReadsOldWritesNew ==
  /\ \A g \in reads : g = computeCalls - 1
  /\ pc \in {"first", "second"} =>
       \A i \in Ids : /\ posGen[currentTextureIndex][i] = computeCalls - 1
                      /\ velGen[currentTextureIndex][i] = computeCalls - 1
  /\ birdMaterial.uTexturePosition # NoTexture =>
       \E g \in 0 .. computeCalls :
         /\ \A i \in Ids : /\ posGen[birdMaterial.uTexturePosition][i] = g
                           /\ velGen[birdMaterial.uTextureVelocity][i] = g
         /\ pc = "idle" => g = computeCalls

\* C5 (witness): the second frame's velocity pass is half way: two fragments
\* have run and read, two have not, and the last frame's targets are with
\* the renderer.
C5_MidVelocityPass ==
  /\ pc = "second"
  /\ computeCalls = 2
  /\ Cardinality(done) = 2
  /\ reads # {}
  /\ birdMaterial.uTexturePosition = currentTextureIndex

\* ------------------------------------------------------------------------
\* Claims about the shaders (SpecKernel)
\* ------------------------------------------------------------------------

MinSpeed == MulDiv(velUniforms.uMaxSpeed, 2, 10)
Ran == frames >= 1
NoForces ==
  /\ velUniforms.uSeparationWeight = 0
  /\ velUniforms.uAlignmentWeight = 0
  /\ velUniforms.uCohesionWeight = 0
  /\ velUniforms.uTurbulence = 0

\* C2 (as stated): an agent that was moving before the tick (speed above
\* 0.001) is written with a speed of at least 0.2 * maxSpeed.
C2_MovingBeforeStaysFast ==
  Ran => \A i \in Ids :
           Length(PrevVel[i]) > Epsilon => Length(CurVel[i]) >= MinSpeed

\* C2 (amended): an agent whose written velocity is above 0.001 in speed,
\* which is when its integrated velocity v + accel * dt is, is written with
\* a speed of at least 0.2 * maxSpeed.
C2_MovingAfterIsFast ==
  Ran => \A i \in Ids :
           Length(CurVel[i]) > Epsilon => Length(CurVel[i]) >= MinSpeed

\* C2 (witness): a moving agent slower than 0.2 * maxSpeed was raised to it.
C2_RaisedToMinSpeed ==
  /\ Ran
  /\ \E i \in Ids : /\ Length(PrevVel[i]) > Epsilon
                    /\ Length(PrevVel[i]) < MinSpeed
                    /\ Length(CurVel[i]) = MinSpeed

\* C6 (as stated): with the three weights and the turbulence at 0, a tick
\* leaves every agent's velocity as it was and moves it by velocity * dt.
C6_DriftEverywhere ==
  (Ran /\ NoForces) =>
    \A i \in Ids :
      /\ CurVel[i] = PrevVel[i]
      /\ CurPos[i] = PrevPos[i] + MulDiv(PrevVel[i], velUniforms.uDelta, Milli)

\* an agent the boundary does not push and the clamp does not rescale
Unforced(i) ==
  /\ Length(PrevPos[i]) <= MulDiv(velUniforms.uBoundaryRadius, 7, 10)
  /\ Length(PrevVel[i]) <= velUniforms.uMaxSpeed
  /\ Length(PrevVel[i]) >= MinSpeed \/ Length(PrevVel[i]) <= Epsilon

\* C6 (amended): with the three weights and the turbulence at 0, a tick moves
\* every agent by velocity * dt, and leaves the velocity as it was of every
\* agent within 0.7 * boundaryRadius of the origin whose speed is at most
\* maxSpeed and either at least 0.2 * maxSpeed or at most 0.001.
C6_DriftInsideBoundary ==
  (Ran /\ NoForces) =>
    \A i \in Ids :
      /\ Unforced(i) => CurVel[i] = PrevVel[i]
      /\ CurPos[i] = PrevPos[i] + MulDiv(PrevVel[i], velUniforms.uDelta, Milli)

\* C6 (witness): without forces an agent inside the boundary kept its
\* velocity and moved.
C6_Drifted ==
  /\ Ran
  /\ NoForces
  /\ \E i \in Ids : /\ Unforced(i)
                    /\ CurVel[i] = PrevVel[i]
                    /\ CurPos[i] # PrevPos[i]

\* the agents placed at 2 * boundaryRadius from the origin with no velocity
Placed ==
  { i \in Ids : /\ Length(dtPosition[i]) = 2 * velUniforms.uBoundaryRadius
                /\ dtVelocity[i] = 0 }
AllDeltasPositive == \A n \in 1 .. Len(deltas) : deltas[n] > 0
\* the velocity points toward the origin
Inward(i) == CurVel[i] * Sign(CurPos[i]) < 0

\* C7 (as stated): an agent placed at 2 * boundaryRadius with no velocity
\* has, after any positive number of ticks with dt > 0, a velocity that
\* points toward the origin.
C7_PlacedTurnsInward ==
  (Ran /\ AllDeltasPositive) => \A i \in Placed : Inward(i)

\* C7 (amended): with the three weights and the turbulence at 0, an agent
\* placed at 2 * boundaryRadius with no velocity has, after any positive
\* number of ticks with dt > 0 and for as long as it is on the side of the
\* origin it was placed on, a velocity that points toward the origin.
C7_PlacedTurnsInwardUnforced ==
  (Ran /\ AllDeltasPositive /\ NoForces) =>
    \A i \in Placed : Sign(CurPos[i]) = Sign(dtPosition[i]) => Inward(i)

\* C7 (witness): after two ticks without flocking forces a placed agent is
\* heading inward and is nearer the origin than it was placed.
C7_PlacedCameBack ==
  /\ frames >= 2
  /\ AllDeltasPositive
  /\ NoForces
  /\ \E i \in Placed : /\ Inward(i)
                       /\ Length(CurPos[i]) < Length(dtPosition[i])

\* the ids the stride loop reads: the only agents any agent can sense
Sampled == { Neighbors(0)[k] : k \in 1 .. Len(Neighbors(0)) }
\* what the first tick added to agent i's velocity
Gain(i) == CurVel[i] - dtVelocity[i]
\* separation alone is on
SeparationOnly ==
  /\ velUniforms.uSeparationWeight > 0
  /\ velUniforms.uAlignmentWeight = 0
  /\ velUniforms.uCohesionWeight = 0
  /\ velUniforms.uTurbulence = 0
\* i and j were placed 1 unit apart, within the separation radius
OneApart(i, j) ==
  /\ i # j
  /\ Length(dtPosition[i] - dtPosition[j]) = Milli
  /\ Milli < velUniforms.uSeparationRadius
FirstTick == frames = 1 /\ velUniforms.uDelta > 0

\* C8 (as stated): with separation weight 10 and the other weights and the
\* turbulence at 0, the first tick gives each of two agents placed 1 unit
\* apart, whichever ids they hold, a velocity gain pointing away from the
\* other.
C8_AnyPairPushedApart ==
  (FirstTick /\ SeparationOnly /\ velUniforms.uSeparationWeight = 10 * Half) =>
    \A i, j \in Ids :
      OneApart(i, j) => Gain(i) * Sign(dtPosition[i] - dtPosition[j]) > 0

\* agent i senses j and no other agent within the separation radius, the
\* boundary does not push it, and the clamp did not rescale what was written
PushedOnlyBy(i, j) ==
  /\ j \in Sampled
  /\ \A k \in Sampled \ {i, j} :
       \/ dtPosition[k] = dtPosition[i]
       \/ Length(dtPosition[i] - dtPosition[k]) >= velUniforms.uSeparationRadius
  /\ Length(dtPosition[i]) <= MulDiv(velUniforms.uBoundaryRadius, 7, 10)
  /\ Length(CurVel[i]) > MinSpeed
  /\ Length(CurVel[i]) < velUniforms.uMaxSpeed

\* C8 (amended): with separation alone on, the first tick gives an agent
\* placed 1 unit from an agent whose id the stride loop samples, with no
\* other sampled agent within the separation radius, inside 0.7 *
\* boundaryRadius and with a speed the clamp leaves alone, a velocity gain
\* pointing away from that agent, of size weight * (N / (10 K)) * (1 / 1) * dt.
C8_SampledPairPushedApart ==
  (FirstTick /\ SeparationOnly) =>
    \A i, j \in Ids :
      (OneApart(i, j) /\ PushedOnlyBy(i, j)) =>
        /\ Gain(i) * Sign(dtPosition[i] - dtPosition[j]) > 0
        /\ Length(Gain(i)) =
             MulDiv(MulDiv(MulDiv(Milli, velUniforms.uSeparationWeight, Half),
                           Min(PARTICLE_COUNT, 3 * 10 * MAX_SAMPLES),
                           10 * MAX_SAMPLES),
                    velUniforms.uDelta, Milli)

\* C8 (witness): two sampled agents placed 1 unit apart were both pushed away
\* from each other by the first tick.
C8_PairPushedApart ==
  /\ FirstTick
  /\ SeparationOnly
  /\ \E i, j \in Ids :
       /\ OneApart(i, j) /\ PushedOnlyBy(i, j) /\ PushedOnlyBy(j, i)
       /\ Gain(i) * Sign(dtPosition[i] - dtPosition[j]) > 0
       /\ Gain(j) * Sign(dtPosition[j] - dtPosition[i]) > 0

\* ------------------------------------------------------------------------
\* Claims about the stride sampler (SpecSampler)
\* ------------------------------------------------------------------------

\* C4 (as stated): for every querying agent the loop yields exactly
\* min(K, N - 1) candidate ids, all distinct and none the agent's own.
C4_SamplesDistinctWithoutSelf ==
  smp.ran =>
    /\ Len(smp.ids) = Min(smp.k, smp.w * smp.h - 1)
    /\ \A a, b \in 1 .. Len(smp.ids) : a # b => smp.ids[a] # smp.ids[b]
    /\ \A a \in 1 .. Len(smp.ids) : smp.ids[a] # smp.self

\* ------------------------------------------------------------------------
\* Claims about the normalize calls (SpecGuards)
\* ------------------------------------------------------------------------

\* C11 (as stated): every normalize of the velocity update is applied to a
\* vector of non-zero length, whatever the positions, velocities, neighbours
\* and panel settings, and no NaN is written into a velocity record.
C11_EveryNormalizeGuarded ==
  nrm.ran => /\ \A o \in nrm.sites : o.operand # 0
             /\ nrm.written # "nan"

\* ------------------------------------------------------------------------
\* Claims about two runs (SpecTwin)
\* ------------------------------------------------------------------------

\* C12: two runs that differ only in the record of one agent whose id is not
\* a multiple i * stride (i < MAX_SAMPLES) hold, after any number of ticks,
\* the same position and velocity for every other agent.
C12_NonSampledAgentUnseen ==
  \A i \in Ids \ {twin.j} : /\ twin.a.pos[i] = twin.b.pos[i]
                            /\ twin.a.vel[i] = twin.b.vel[i]

\* C12 (witness): after the last tick the runs are still apart in the
\* non-sampled agent, which is within the separation radius of a sampled
\* agent in one run and at another distance from it in the other, and that
\* agent's velocity is the same in both.
C12_ApartYetUnseen ==
  /\ twin.ticks = MaxFrames
  /\ twin.j \notin StrideIds
  /\ twin.a.pos[twin.j] # twin.b.pos[twin.j]
  /\ \E i \in StrideIds \ {twin.j} :
       /\ Length(twin.a.pos[i] - twin.a.pos[twin.j]) \in
            1 .. (twin.u.uSeparationRadius - 1)
       /\ Length(twin.b.pos[i] - twin.b.pos[twin.j])
            # Length(twin.a.pos[i] - twin.a.pos[twin.j])
       /\ twin.a.vel[i] = twin.b.vel[i]

=============================================================================
